---- MODULE Spec2Model ----
(***************************************************************************)
(* ytmdl-tui: the download controller of src/app/main.py.                  *)
(*                                                                         *)
(* One UI thread (the Textual event loop) runs the handlers                *)
(* action_download and action_pause_resume; every accepted start()         *)
(* creates one worker thread running run_download, which spawns yt-dlp,    *)
(* reads its output line by line, classifies each line with an elif chain  *)
(* and hands every widget update to the UI thread with call_from_thread    *)
(* (a blocking hand-off: the worker continues when the callback has run).  *)
(*                                                                         *)
(* Texts are tuples of their pieces (the literal parts of an f-string and  *)
(* its arguments), emoji left out; None is the empty tuple where only its  *)
(* truth value is read.                                                    *)
(***************************************************************************)
EXTENDS Integers, Sequences, FiniteSets, TLC

\* ---------------------------------------------------------------- bounds
\* Accepted start() calls, hence worker threads and child processes.
MaxDownloads == 2
\* Lines one child writes before it closes its output, when downloads overlap.
MaxControlLines == 1
\* Lines the child writes before it closes its output, in a single download.
MaxLines == 2
\* Largest number printed in a "Downloading N items of M" / "item I of T" line.
MaxNum == 2
\* Largest number of distinct patterns one line of the marker corpus carries.
MaxMarks == 2

\* self.download_process = None
NoProcess == 0
\* Popen.returncode before wait()/poll() has collected the exit status (None)
NoReturncode == -1

Threads == 1..MaxDownloads

\* ------------------------------------------------------------ the lines
(***************************************************************************)
(* A line of the child's output, after line.strip(): which of the          *)
(* patterns the elif chain tests it matches (marks), and what the regular  *)
(* expressions capture.  blank: the stripped line is empty.                *)
(***************************************************************************)
mExtractingUrl  == "Extracting URL:"
mRedirect       == "YouTube Music is not directly supported"
mWebpage        == "Downloading webpage"
mApiJson        == "Downloading API JSON"
mPlaylist       == "Downloading playlist: (.+)"
mItemCount      == "Downloading (\\d+) items? of (\\d+)"
mItem           == "Downloading item (\\d+) of (\\d+)"
mYtExtracting   == "\\[youtube\\] Extracting URL: https://[^\\s]+"
mYtWebpage      == "\\[youtube\\] ([^:]+): Downloading webpage"
mYtPlayerJson   == "\\[youtube\\] ([^:]+): Downloading (?:ios|android) player API JSON"
mDlDestination  == "\\[download\\] Destination: (.+)"
mDlPercent      == "\\[download\\]\\s+(\\d+\\.?\\d*)%"
mDownload       == "[download]"
mAlready        == "has already been downloaded"
mExtractAudio   == "[ExtractAudio]"
mDestination    == "Destination: (.+)"
mEmbedThumbnail == "[EmbedThumbnail]"
mMetadata       == "[Metadata]"
mAddingMetadata == "Adding metadata"
mDeleting       == "Deleting original file"
mWarning        == "WARNING:"
mUnavailable    == "WARNING: ... unavailable videos are hidden"
mError          == "ERROR:"

Marks == { mExtractingUrl, mRedirect, mWebpage, mApiJson, mPlaylist, mItemCount,
           mItem, mYtExtracting, mYtWebpage, mYtPlayerJson, mDlDestination,
           mDlPercent, mDownload, mAlready, mExtractAudio, mDestination,
           mEmbedThumbnail, mMetadata, mAddingMetadata, mDeleting, mWarning,
           mUnavailable, mError }

\* A text matching one pattern contains the substrings the pattern is made of.
Implied(m) ==
    CASE m = mYtExtracting  -> {mExtractingUrl}
      [] m = mYtWebpage     -> {mWebpage}
      [] m = mDlDestination -> {mDownload, mDestination}
      [] m = mDlPercent     -> {mDownload}
      [] m = mUnavailable   -> {mWarning}
      [] OTHER              -> {}

Closure(S) == S \cup UNION { Implied(m) : m \in S }

Paths == { <<"/music/", "track1", ".mp3">>, <<"/music/", "track2", ".webm">> }
PlaylistNames == { "Mix" }
Percents == { 0, 50, 100 }

Line(marks, count, item, percent, playlist, dest) ==
    [ blank |-> FALSE, marks |-> Closure(marks), count |-> count, item |-> item,
      percent |-> percent, playlist |-> playlist, dest |-> dest ]

DefaultPath == <<"/music/", "track1", ".mp3">>

\* The stripped line is empty.
BlankLine ==
    [ blank |-> TRUE, marks |-> {}, count |-> <<0, 0>>, item |-> <<0, 0>>,
      percent |-> 0, playlist |-> "Mix", dest |-> DefaultPath ]

\* A line with the given patterns and fixed captures.
Marked(marks) == Line(marks, <<1, 2>>, <<2, 2>>, 50, "Mix", DefaultPath)

\* The sets of at most k patterns.
RECURSIVE MarkSets(_)
MarkSets(k) ==
    IF k = 0 THEN { {} }
    ELSE LET S == MarkSets(k - 1) IN S \cup { T \cup {m} : T \in S, m \in Marks }

\* The marker corpus: every combination of at most MaxMarks patterns.
MarkerLines == { Marked(S) : S \in MarkSets(MaxMarks) }

\* The progress corpus: the lines with numbers in them, every capture.
ProgressLines ==
    { Line({mItemCount}, <<a, MaxNum>>, <<0, 0>>, 0, "Mix", DefaultPath) :
        a \in 0..MaxNum }
    \cup { Line({mItem}, <<0, 0>>, <<i, t>>, 0, "Mix", DefaultPath) :
        i \in 0..MaxNum, t \in 0..MaxNum }
    \cup { Line({mDlPercent}, <<0, 0>>, <<0, 0>>, p, "Mix", DefaultPath) :
        p \in Percents }

\* The file-name corpus: the lines that set, show or clear the current file.
FileLines ==
    { Line({mDlDestination}, <<0, 0>>, <<0, 0>>, 0, "Mix", d) : d \in Paths }
    \cup { Line({mExtractAudio, mDestination}, <<0, 0>>, <<0, 0>>, 0, "Mix", d) : d \in Paths }
    \cup { Line({mExtractAudio}, <<0, 0>>, <<0, 0>>, 0, "Mix", DefaultPath),
           Line({mDownload, mAlready}, <<0, 0>>, <<0, 0>>, 0, "Mix", DefaultPath),
           Line({mExtractingUrl}, <<0, 0>>, <<0, 0>>, 0, "Mix", DefaultPath) }

\* The lines of a short playlist download, a failure and noise.
ControlLines ==
    { Line({mItemCount}, <<2, 2>>, <<0, 0>>, 0, "Mix", DefaultPath),
      Line({mError}, <<0, 0>>, <<0, 0>>, 0, "Mix", DefaultPath),
      BlankLine }

Has(line, m) == m \in line.marks

\* os.path.basename(filepath)
Basename(filepath) == SubSeq(filepath, 2, Len(filepath))
\* os.path.splitext(filename)[0]
SplitextRoot(filename) == <<filename[1]>>

\* int(x) of Python for x = num / den, den > 0: truncation towards zero.
PyInt(num, den) == IF num >= 0 THEN num \div den ELSE -((-num) \div den)

\* -------------------------------------------------- run_download's locals
\* playlist_name = None; playlist_total = 0; current_item = 0; current_filename = None
InitLocals ==
    [ playlist_name |-> <<>>, playlist_total |-> 0, current_item |-> 0,
      current_filename |-> <<>> ]

Call(f, arg) == <<f, arg>>
Step(loc, calls) == [ loc |-> loc, calls |-> calls ]

(***************************************************************************)
(* The body of the read loop for one non-blank line: the raw line is       *)
(* logged, then the first branch of the elif chain whose test succeeds     *)
(* runs.  The result is the new values of the locals and the calls handed  *)
(* to call_from_thread, in order.                                          *)
(***************************************************************************)
\* mutant: the guard lets a total of 0 through
ItemPercentCallsUnguarded(line, loc) ==
    IF loc.playlist_total >= 0
    THEN << <<"update_progress",
              PyInt((loc.current_item - 1) * 100 + line.percent, 100),
              loc.playlist_total>> >>
    ELSE << >>

ItemPercentCalls(line, loc) ==
    IF loc.playlist_total > 0
    THEN << <<"update_progress",
              PyInt((loc.current_item - 1) * 100 + line.percent, 100),
              loc.playlist_total>> >>
    ELSE << >>

\* mutant: the unavailable count is shown even when it is 0
ItemCountBranchAlways(line, loc) ==
    LET available == line.count[1]
        total     == line.count[2]
    IN Step([loc EXCEPT !.playlist_total = available],
            << Call("update_playlist_info",
                    <<"Items: ", available, " available", " (", total - available, " unavailable)">>),
               <<"update_progress", 0, available>> >>)

ItemCountBranch(line, loc) ==
    LET available == line.count[1]
        total     == line.count[2]
        info      == IF available < total
                     THEN <<"Items: ", available, " available", " (", total - available, " unavailable)">>
                     ELSE <<"Items: ", available, " available">>
    IN Step([loc EXCEPT !.playlist_total = available],
            << Call("update_playlist_info", info),
               <<"update_progress", 0, available>> >>)

ItemBranch(line, loc) ==
    LET current_item == line.item[1]
        total        == line.item[2]
    IN Step([loc EXCEPT !.current_item = current_item, !.playlist_total = total],
            << Call("update_current_action", <<"Downloading track ", current_item, " of ", total>>),
               Call("update_status", <<"Downloading ", current_item, "/", total>>),
               <<"update_progress", current_item - 1, total>> >>)

DestinationBranch(line, loc) ==
    LET filename_without_ext == SplitextRoot(Basename(line.dest))
    IN Step([loc EXCEPT !.current_filename = filename_without_ext],
            << Call("update_current_file", filename_without_ext) >>)

AlreadyBranch(line, loc) ==
    Step(loc,
         << Call("update_current_action", <<"Track already downloaded (skipping)">>) >>
         \o (IF loc.current_filename # <<>>
             THEN << Call("update_current_file", loc.current_filename \o <<" (already downloaded)">>) >>
             ELSE << >>))

ExtractAudioBranch(line, loc) ==
    Step(loc,
         << Call("update_current_action", <<"Converting to audio format...">>) >>
         \o (IF Has(line, mDestination)
             THEN << Call("update_current_file", SplitextRoot(Basename(line.dest))) >>
             ELSE << >>))

WarningBranch(line, loc) ==
    Step(loc,
         IF Has(line, mUnavailable)
         THEN << Call("update_playlist_info", <<"Some videos unavailable - ", "unavailable videos are hidden">>) >>
         ELSE << >>)

ExtractingUrlBranch(line, loc) ==
    Step(loc, << Call("update_current_action", <<"Extracting URL...">>),
                 Call("update_status", <<"Extracting URL...">>),
                 Call("update_current_file", << >>) >>)

RedirectBranch(line, loc) ==
    Step(loc, << Call("update_current_action", <<"Redirecting to YouTube...">>) >>)

FetchingBranch(line, loc) ==
    Step(loc, << Call("update_current_action", <<"Fetching playlist data...">>) >>)

PlaylistBranch(line, loc) ==
    Step([loc EXCEPT !.playlist_name = <<line.playlist>>],
         << Call("update_current_action", <<"Found playlist: ", line.playlist>>),
            Call("update_status", <<"Playlist: ", line.playlist>>) >>)

YtExtractingBranch(line, loc) ==
    Step(loc, << Call("update_current_action", <<"Extracting track info...">>) >>)

\* video_id = match.group(1): nothing else happens
VideoIdBranch(line, loc) == Step(loc, << >>)

ItemPercentBranch(line, loc) == Step(loc, ItemPercentCalls(line, loc))

EmbedThumbnailBranch(line, loc) ==
    Step(loc, << Call("update_current_action", <<"Embedding thumbnail...">>) >>)

MetadataBranch(line, loc) ==
    Step(loc, << Call("update_current_action", <<"Embedding metadata...">>) >>)

DeletingBranch(line, loc) ==
    Step(loc, << Call("update_current_action", <<"Cleaning up...">>) >>)

ErrorBranch(line, loc) ==
    Step(loc, << Call("update_current_action", <<"Error occurred">>),
                 Call("update_status", <<"Error during download">>) >>)

\* no branch matches: the line is logged and nothing else
NoBranch(line, loc) == Step(loc, << >>)

\* mutant: errors are tested before warnings
ErrorsThenWarnings(line, loc) ==
    IF Has(line, mError) THEN ErrorBranch(line, loc)
    ELSE IF Has(line, mWarning) THEN WarningBranch(line, loc)
    ELSE NoBranch(line, loc)

\* the end of the chain: warnings, then errors
WarningsThenErrors(line, loc) ==
    IF Has(line, mWarning) THEN WarningBranch(line, loc)
    ELSE IF Has(line, mError) THEN ErrorBranch(line, loc)
    ELSE NoBranch(line, loc)

ElifChain(line, loc) ==
    IF Has(line, mExtractingUrl) THEN ExtractingUrlBranch(line, loc)
    ELSE IF Has(line, mRedirect) THEN RedirectBranch(line, loc)
    ELSE IF Has(line, mWebpage) \/ Has(line, mApiJson) THEN FetchingBranch(line, loc)
    ELSE IF Has(line, mPlaylist) THEN PlaylistBranch(line, loc)
    ELSE IF Has(line, mItemCount) THEN ItemCountBranch(line, loc)
    ELSE IF Has(line, mItem) THEN ItemBranch(line, loc)
    ELSE IF Has(line, mYtExtracting) THEN YtExtractingBranch(line, loc)
    ELSE IF Has(line, mYtWebpage) \/ Has(line, mYtPlayerJson) THEN VideoIdBranch(line, loc)
    ELSE IF Has(line, mDlDestination) THEN DestinationBranch(line, loc)
    ELSE IF Has(line, mDlPercent) THEN ItemPercentBranch(line, loc)
    ELSE IF Has(line, mDownload) /\ Has(line, mAlready) THEN AlreadyBranch(line, loc)
    ELSE IF Has(line, mExtractAudio) THEN ExtractAudioBranch(line, loc)
    ELSE IF Has(line, mEmbedThumbnail) THEN EmbedThumbnailBranch(line, loc)
    ELSE IF Has(line, mMetadata) \/ Has(line, mAddingMetadata) THEN MetadataBranch(line, loc)
    ELSE IF Has(line, mDeleting) THEN DeletingBranch(line, loc)
    ELSE WarningsThenErrors(line, loc)

ParseLine(line, loc) ==
    LET r == ElifChain(line, loc)
    IN Step(r.loc, << Call("log_message", <<"output: ", line>>) >> \o r.calls)

\* ------------------------------------------------------------ the state
VARIABLES
    is_downloading,     \* self.is_downloading
    is_paused,          \* self.is_paused
    download_process,   \* self.download_process: NoProcess or the child's id
    pause_btn,          \* #pause_btn: [disabled, label]
    download_btn,       \* #download_btn: [disabled]
    status,             \* #status
    current_action,     \* #current-action
    current_file,       \* #current-file
    playlist_info,      \* #playlist-info
    progress,           \* #download-progress: [current, total]
    download_log,       \* #download_log: the lines the latest step has appended
    threads,            \* the run_download threads
    procs,              \* the yt-dlp child processes
    item_seen,          \* history: the thread has read a "Downloading item" line
    scenario            \* what is run: the corpus a child writes its lines from,
                        \* how many lines, and how many downloads the user starts

ui == << is_downloading, is_paused, pause_btn, download_btn, status,
         current_action, current_file, playlist_info, progress >>

\* log_message(message) for each of the messages, in order
Log(messages) == download_log' = messages
\* a step that writes nothing to the log
NoLog == download_log' = << >>
vars == << is_downloading, is_paused, download_process, pause_btn, download_btn,
           status, current_action, current_file, playlist_info, progress,
           download_log, threads, procs, item_seen, scenario >>

\* A thread that was never started.
NoThread ==
    [ pc |-> "unstarted", pending |-> << >>, stdout |-> NoProcess, loc |-> InitLocals ]
\* A child that was never spawned.
NoChild ==
    [ st |-> "none", exitstatus |-> 0, returncode |-> NoReturncode, written |-> 0 ]

\* The widgets as compose() and on_mount() leave them, the flags as __init__ does.
InitApp ==
    /\ is_downloading = FALSE
    /\ is_paused = FALSE
    /\ download_process = NoProcess
    /\ pause_btn = [ disabled |-> TRUE, label |-> "Pause" ]
    /\ download_btn = [ disabled |-> FALSE ]
    /\ status = <<"Ready to download">>
    /\ current_action = <<"Ready">>
    /\ current_file = << >>
    /\ playlist_info = << >>
    /\ progress = [ current |-> 0, total |-> 100 ]
    /\ download_log = << >>
    /\ threads = [ w \in Threads |-> NoThread ]
    /\ procs = [ p \in Threads |-> NoChild ]
    /\ item_seen = [ w \in Threads |-> FALSE ]

Scenario(corpus, max_lines, downloads) ==
    [ corpus |-> corpus, max_lines |-> max_lines, downloads |-> downloads ]

Corpus(name) ==
    CASE name = "control"  -> ControlLines
      [] name = "progress" -> ProgressLines
      [] name = "markers"  -> MarkerLines
      [] name = "files"    -> FileLines

\* Overlapping downloads of a short playlist.
Init == InitApp /\ scenario = Scenario("control", MaxControlLines, MaxDownloads)
\* One download whose child writes the lines that carry numbers.
InitProgress == InitApp /\ scenario = Scenario("progress", MaxLines, 1)
\* One download whose child writes one line of the marker corpus.
InitMarkers == InitApp /\ scenario = Scenario("markers", 1, 1)
\* One download whose child writes the lines that name files.
InitFiles == InitApp /\ scenario = Scenario("files", MaxLines, 1)

\* ------------------------------------------------- the UI-thread callbacks
\* mutant: reset_buttons leaves the paused flag as it is
ResetButtonsKeepsPaused ==
    /\ is_downloading' = FALSE
    /\ pause_btn' = [ disabled |-> TRUE, label |-> "Pause" ]
    /\ download_btn' = [ disabled |-> FALSE ]
    /\ NoLog
    /\ UNCHANGED << is_paused, status, current_action, current_file, playlist_info,
                    progress >>

\* reset_buttons (the three copies are the same)
ResetButtons ==
    /\ is_downloading' = FALSE
    /\ is_paused' = FALSE
    /\ pause_btn' = [ disabled |-> TRUE, label |-> "Pause" ]
    /\ download_btn' = [ disabled |-> FALSE ]
    /\ NoLog
    /\ UNCHANGED << status, current_action, current_file, playlist_info, progress >>

\* update_current_file(filename)
CurrentFileText(filename) == IF filename # << >> THEN <<"file: ">> \o filename ELSE << >>

\* self.download_process.returncode, read when the call is made
ReturncodeNow == procs[download_process].returncode

(***************************************************************************)
(* One call handed over by call_from_thread, run on the UI thread.         *)
(***************************************************************************)
RunCallback(call) ==
    LET f == call[1] IN
    CASE f = "reset_buttons" -> ResetButtons
      [] f = "update_status" ->
            /\ status' = call[2]
            /\ NoLog
            /\ UNCHANGED << is_downloading, is_paused, pause_btn, download_btn,
                            current_action, current_file, playlist_info, progress >>
      [] f = "update_status_failed" ->
            /\ status' = <<"Failed (exit code: ", ReturncodeNow, ")">>
            /\ NoLog
            /\ UNCHANGED << is_downloading, is_paused, pause_btn, download_btn,
                            current_action, current_file, playlist_info, progress >>
      [] f = "update_current_action" ->
            /\ current_action' = call[2]
            /\ NoLog
            /\ UNCHANGED << is_downloading, is_paused, pause_btn, download_btn,
                            status, current_file, playlist_info, progress >>
      [] f = "update_current_file" ->
            /\ current_file' = CurrentFileText(call[2])
            /\ NoLog
            /\ UNCHANGED << is_downloading, is_paused, pause_btn, download_btn,
                            status, current_action, playlist_info, progress >>
      [] f = "update_playlist_info" ->
            /\ playlist_info' = call[2]
            /\ NoLog
            /\ UNCHANGED << is_downloading, is_paused, pause_btn, download_btn,
                            status, current_action, current_file, progress >>
      [] f = "update_progress" ->
            /\ progress' = [ current |-> call[2], total |-> call[3] ]
            /\ NoLog
            /\ UNCHANGED << is_downloading, is_paused, pause_btn, download_btn,
                            status, current_action, current_file, playlist_info >>
      [] f = "log_message" ->
            /\ Log(<< call[2] >>)
            /\ UNCHANGED << is_downloading, is_paused, pause_btn, download_btn,
                            status, current_action, current_file, playlist_info,
                            progress >>
      [] f = "log_message_failed" ->
            /\ Log(<< <<"ERROR: Download failed with exit code ", ReturncodeNow>> >>)
            /\ UNCHANGED << is_downloading, is_paused, pause_btn, download_btn,
                            status, current_action, current_file, playlist_info,
                            progress >>

\* --------------------------------------------------- the terminal reports
\* mutant: the bar is forced to the last item, not past it
CompleteCallsOffByOne(loc) ==
    << <<"reset_buttons">>,
       Call("update_current_action", <<"All downloads complete!">>),
       Call("update_status", <<"Download complete!">>),
       Call("update_current_file", << >>),
       <<"update_progress", loc.playlist_total - 1, loc.playlist_total>>,
       Call("log_message", <<"====">>),
       Call("log_message", <<"Download completed successfully!">>) >>

\* returncode == 0
CompleteCalls(loc) ==
    << <<"reset_buttons">>,
       Call("update_current_action", <<"All downloads complete!">>),
       Call("update_status", <<"Download complete!">>),
       Call("update_current_file", << >>) >>
    \o (IF loc.playlist_total > 0
        THEN << <<"update_progress", loc.playlist_total, loc.playlist_total>>,
                Call("update_playlist_info",
                     <<"Successfully downloaded ", loc.playlist_total, " tracks">>) >>
        ELSE << >>)
    \o << Call("log_message", <<"====">>),
          Call("log_message", <<"Download completed successfully!">>) >>

\* returncode != 0; the exit code is read again for the status and for the log
FailedCalls ==
    << <<"reset_buttons">>,
       Call("update_current_action", <<"Download failed">>),
       <<"update_status_failed">>,
       Call("update_current_file", << >>),
       <<"log_message_failed">> >>

\* mutant: the report names the failure and gives no instruction
NotFoundCallsNoAdvice ==
    << <<"reset_buttons">>,
       Call("update_current_action", <<"yt-dlp not found">>),
       Call("update_status", <<"yt-dlp not found">>),
       Call("update_current_file", << >>),
       Call("log_message", <<"ERROR: yt-dlp not found. Please install it:">>) >>

\* except FileNotFoundError
NotFoundCalls ==
    << <<"reset_buttons">>,
       Call("update_current_action", <<"yt-dlp not found">>),
       Call("update_status", <<"yt-dlp not found">>),
       Call("update_current_file", << >>),
       Call("log_message", <<"ERROR: yt-dlp not found. Please install it:">>),
       Call("log_message", <<"  pip install yt-dlp">>),
       Call("log_message", <<"  or: sudo pacman -S yt-dlp">>) >>

\* mutant: the handler reports and forgets reset_buttons
ErrorCallsNoReset(e) ==
    << Call("update_current_action", <<"Error: ", e>>),
       Call("update_status", <<"Error: ", e>>),
       Call("update_current_file", << >>),
       Call("log_message", <<"ERROR: ", e>>) >>

\* except Exception as e
ErrorCalls(e) ==
    << <<"reset_buttons">>,
       Call("update_current_action", <<"Error: ", e>>),
       Call("update_status", <<"Error: ", e>>),
       Call("update_current_file", << >>),
       Call("log_message", <<"ERROR: ", e>>) >>

\* ------------------------------------------------------- the UI handlers
\* value.strip() of an input field, the value a tuple of characters
RECURSIVE LStrip(_)
LStrip(s) == IF s # << >> /\ Head(s) = " " THEN LStrip(Tail(s)) ELSE s
RECURSIVE RStrip(_)
RStrip(s) == IF s # << >> /\ s[Len(s)] = " " THEN RStrip(SubSeq(s, 1, Len(s) - 1)) ELSE s
\* mutant: the value is taken as typed
NoStrip(s) == s
Strip(s) == RStrip(LStrip(s))

\* What the user may have typed into #url_input.
UrlValues == { << >>, <<" ">>, <<"u">>, <<" ", "u", " ">> }

\* mutant: the guard is missing
DownloadInProgressNever == FALSE

\* if self.is_downloading: (the guard of action_download)
DownloadInProgress == is_downloading

\* threading.Thread(target=self.run_download, ...).start(): the locals of
\* run_download are set before its try block.
ThreadStart(w) ==
    threads' = [ threads EXCEPT ![w] =
                   [ pc |-> "Popen", pending |-> << >>, stdout |-> NoProcess,
                     loc |-> InitLocals ] ]

Unstarted == { w \in 1..scenario.downloads : threads[w].pc = "unstarted" }

action_download(value) ==
    \/ /\ DownloadInProgress
       /\ status' = <<"Download already in progress">>
       /\ Log(<< <<"ERROR: A download is already in progress">> >>)
       /\ UNCHANGED << is_downloading, is_paused, download_process, pause_btn,
                       download_btn, current_action, current_file, playlist_info,
                       progress, threads, procs, item_seen, scenario >>
    \/ /\ ~DownloadInProgress
       /\ Strip(value) = << >>
       /\ status' = <<"Error: URL is required">>
       /\ Log(<< <<"ERROR: Please enter a URL">> >>)
       /\ UNCHANGED << is_downloading, is_paused, download_process, pause_btn,
                       download_btn, current_action, current_file, playlist_info,
                       progress, threads, procs, item_seen, scenario >>
    \/ /\ ~DownloadInProgress
       /\ Strip(value) # << >>
       /\ Unstarted # {}
       /\ is_downloading' = TRUE
       /\ is_paused' = FALSE
       /\ pause_btn' = [ disabled |-> FALSE, label |-> "Pause" ]
       /\ download_btn' = [ disabled |-> TRUE ]
       /\ status' = <<"Downloading...">>
       /\ Log(<< <<"Starting download from: ", Strip(value)>>, <<"Output directory: ">>,
                 <<"Format: ", ", Quality: ">>, <<"Command: ", Strip(value)>>,
                 <<"------------------------------------------------------------">> >>)
       /\ ThreadStart(CHOOSE w \in Unstarted : \A v \in Unstarted : w <= v)
       /\ UNCHANGED << download_process, current_action, current_file, playlist_info,
                       progress, procs, item_seen, scenario >>

(***************************************************************************)
(* Popen.send_signal(sig): poll() first, which collects the exit status of *)
(* a child that has exited; a child known to have exited is not            *)
(* signalled.  SIGSTOP stops a live child, SIGCONT continues it.           *)
(***************************************************************************)
send_signal(p, sig) ==
    IF procs[p].st = "exited"
    THEN [ procs EXCEPT ![p].returncode = procs[p].exitstatus ]
    ELSE [ procs EXCEPT ![p].st = IF sig = "SIGSTOP" THEN "stopped" ELSE "running" ]

\* if not self.is_downloading or not self.download_process: return
PauseResumeRefused == ~is_downloading \/ download_process = NoProcess

action_pause_resume ==
    \/ /\ PauseResumeRefused
       /\ NoLog
       /\ UNCHANGED << ui, download_process, threads, procs, item_seen, scenario >>
    \/ /\ ~PauseResumeRefused
       /\ is_paused
       /\ \/ /\ procs' = send_signal(download_process, "SIGCONT")
             /\ is_paused' = FALSE
             /\ pause_btn' = [ pause_btn EXCEPT !.label = "Pause" ]
             /\ status' = <<"Resumed">>
             /\ current_action' = <<"Download resumed">>
             /\ Log(<< <<"Download resumed">> >>)
          \/ \* send_signal raises
             /\ Log(<< <<"Error resuming: ", "e">> >>)
             /\ UNCHANGED << procs, is_paused, pause_btn, status, current_action >>
       /\ UNCHANGED << is_downloading, download_process, download_btn, current_file,
                       playlist_info, progress, threads, item_seen, scenario >>
    \/ /\ ~PauseResumeRefused
       /\ ~is_paused
       /\ \/ /\ procs' = send_signal(download_process, "SIGSTOP")
             /\ is_paused' = TRUE
             /\ pause_btn' = [ pause_btn EXCEPT !.label = "Resume" ]
             /\ status' = <<"Paused">>
             /\ current_action' = <<"Download paused">>
             /\ Log(<< <<"Download paused">> >>)
          \/ \* send_signal raises
             /\ Log(<< <<"Error pausing: ", "e">> >>)
             /\ UNCHANGED << procs, is_paused, pause_btn, status, current_action >>
       /\ UNCHANGED << is_downloading, download_process, download_btn, current_file,
                       playlist_info, progress, threads, item_seen, scenario >>

\* ------------------------------------------------------------ run_download
Ready(w, pc) == threads[w].pc = pc /\ threads[w].pending = << >>
\* the blocks that report the end of a download: the one of returncode == 0,
\* the one of its else, and those of the except clauses
Terminal == { "complete", "failed", "except" }

\* except FileNotFoundError / except Exception: the report, then the thread ends
Except(w, calls) ==
    threads' = [ threads EXCEPT ![w].pending = calls, ![w].pc = "except" ]

\* self.download_process = subprocess.Popen(command, ...)
Popen(w) ==
    /\ Ready(w, "Popen")
    /\ \/ /\ download_process' = w
          /\ procs' = [ procs EXCEPT ![w].st = "running" ]
          /\ threads' = [ threads EXCEPT ![w].pc = "for", ![w].stdout = w ]
       \/ \* yt-dlp is not installed
          /\ Except(w, NotFoundCalls)
          /\ UNCHANGED << download_process, procs >>
       \/ \* any other failure to spawn
          /\ Except(w, ErrorCalls("PermissionError"))
          /\ UNCHANGED << download_process, procs >>
    /\ NoLog /\ UNCHANGED << ui, item_seen, scenario >>

\* The calls are those of the "Downloading item" branch.
ItemLineRead(calls) ==
    \E i \in 1..Len(calls) :
        calls[i][1] = "update_current_action" /\ calls[i][2][1] = "Downloading track "

\* for line in self.download_process.stdout: one line, stripped and parsed
ReadLine(w) ==
    /\ Ready(w, "for")
    /\ LET p == threads[w].stdout IN
       /\ procs[p].st = "running"
       /\ procs[p].written < scenario.max_lines
       /\ \E line \in Corpus(scenario.corpus) :
            /\ procs' = [ procs EXCEPT ![p].written = @ + 1 ]
            /\ IF line.blank
               THEN UNCHANGED << threads, item_seen >>
               ELSE LET r == ParseLine(line, threads[w].loc)
                    IN /\ threads' = [ threads EXCEPT ![w].loc = r.loc,
                                                      ![w].pending = r.calls ]
                       /\ item_seen' = [ item_seen EXCEPT ![w] = @ \/ ItemLineRead(r.calls) ]
    /\ NoLog /\ UNCHANGED << ui, download_process, scenario >>

\* reading the stream raises (the output is not valid text)
ReadRaises(w) ==
    /\ Ready(w, "for")
    /\ LET p == threads[w].stdout IN
       /\ procs[p].st = "running"
       /\ procs[p].written < scenario.max_lines
       /\ procs' = [ procs EXCEPT ![p].written = @ + 1 ]
    /\ Except(w, ErrorCalls("UnicodeDecodeError"))
    /\ NoLog /\ UNCHANGED << ui, download_process, item_seen, scenario >>

\* the child has closed its output: the loop ends
ReadEOF(w) ==
    /\ Ready(w, "for")
    /\ procs[threads[w].stdout].st = "exited"
    /\ threads' = [ threads EXCEPT ![w].pc = "wait" ]
    /\ NoLog /\ UNCHANGED << ui, download_process, procs, item_seen, scenario >>

\* self.download_process.wait()
Wait(w) ==
    /\ Ready(w, "wait")
    /\ procs[download_process].st = "exited"
    /\ procs' = [ procs EXCEPT ![download_process].returncode =
                                  procs[download_process].exitstatus ]
    /\ threads' = [ threads EXCEPT ![w].pc = "returncode" ]
    /\ NoLog /\ UNCHANGED << ui, download_process, item_seen, scenario >>

\* if self.download_process.returncode == 0: ... else: ...
Returncode(w) ==
    /\ Ready(w, "returncode")
    /\ threads' = [ threads EXCEPT
                      ![w].pending = IF ReturncodeNow = 0
                                     THEN CompleteCalls(threads[w].loc)
                                     ELSE FailedCalls,
                      ![w].pc = IF ReturncodeNow = 0 THEN "complete" ELSE "failed" ]
    /\ NoLog /\ UNCHANGED << ui, download_process, procs, item_seen, scenario >>

\* call_from_thread(callback, ...): the UI thread runs the call
CallFromThread(w) ==
    /\ threads[w].pending # << >>
    /\ RunCallback(Head(threads[w].pending))
    /\ threads' = [ threads EXCEPT ![w].pending = Tail(@) ]
    /\ UNCHANGED << download_process, procs, item_seen, scenario >>

\* run_download returns: the thread is over
Return(w) ==
    /\ \E pc \in Terminal : Ready(w, pc)
    /\ threads' = [ threads EXCEPT ![w] = [ NoThread EXCEPT !.pc = "done" ] ]
    /\ item_seen' = [ item_seen EXCEPT ![w] = FALSE ]
    /\ NoLog /\ UNCHANGED << ui, download_process, procs, scenario >>

\* -------------------------------------------------------------- the child
\* yt-dlp ends, with an exit status
ChildExit(p) ==
    /\ procs[p].st = "running"
    /\ \E code \in {0, 1} : procs' = [ procs EXCEPT ![p].st = "exited",
                                                     ![p].exitstatus = code ]
    /\ NoLog /\ UNCHANGED << ui, download_process, threads, item_seen, scenario >>

Next ==
    \/ \E value \in UrlValues : action_download(value)
    \/ action_pause_resume
    \/ \E w \in Threads :
         \/ Popen(w)
         \/ ReadLine(w)
         \/ ReadRaises(w)
         \/ ReadEOF(w)
         \/ Wait(w)
         \/ Returncode(w)
         \/ CallFromThread(w)
         \/ Return(w)
    \/ \E p \in Threads : ChildExit(p)

Spec == Init /\ [][Next]_vars
ProgressSpec == InitProgress /\ [][Next]_vars
MarkerSpec == InitMarkers /\ [][Next]_vars
FileSpec == InitFiles /\ [][Next]_vars

\* A step of run_download in thread w, or of a call it has handed over.
WorkerNext(w) ==
    \/ Popen(w) \/ ReadLine(w) \/ ReadRaises(w) \/ ReadEOF(w)
    \/ Wait(w) \/ Returncode(w) \/ CallFromThread(w) \/ Return(w)
\* The worker threads are scheduled, the UI thread keeps running the calls
\* handed to it, and a child that is not kept stopped comes to its end.
Fairness ==
    /\ \A w \in Threads : WF_vars(WorkerNext(w))
    /\ \A p \in Threads : SF_vars(ChildExit(p))
FairSpec == Init /\ [][Next]_vars /\ Fairness

\* ================================================================ claims
\* a worker thread that has been started and has not returned
Alive(w) == threads[w].pc \notin {"unstarted", "done"}
\* a child process that has not exited
Live(p) == procs[p].st \in {"running", "stopped"}
\* no download was started after w's
Latest(w) == \A v \in Threads : v > w => threads[v].pc = "unstarted"
\* w is on a terminal path and its reset_buttons call has run
ResetDone(w) ==
    /\ threads[w].pc \in Terminal
    /\ \A i \in 1..Len(threads[w].pending) : threads[w].pending[i][1] # "reset_buttons"
ControlsReady ==
    /\ ~is_downloading
    /\ ~is_paused
    /\ download_btn = [ disabled |-> FALSE ]
    /\ pause_btn = [ disabled |-> TRUE, label |-> "Pause" ]
AlreadyInProgress ==
    /\ status = <<"Download already in progress">>
    /\ download_log = << <<"ERROR: A download is already in progress">> >>

(***************************************************************************)
(* C1.  start() while a download is running (paused or not) is rejected:   *)
(* no thread is created, no child is spawned or signalled, the flags and   *)
(* the buttons keep their values; only the warning in the status bar and   *)
(* the error line in the log are produced.                                 *)
(***************************************************************************)
C1_StartRejectedWhileRunning ==
    [][ (is_downloading /\ \E value \in UrlValues : action_download(value))
        => /\ UNCHANGED << threads, procs, download_process, is_downloading, is_paused,
                           pause_btn, download_btn, current_action, current_file,
                           playlist_info, progress >>
           /\ AlreadyInProgress' ]_vars

\* start() was rejected while the download was paused
C1_Witness ==
    /\ is_downloading /\ is_paused
    /\ AlreadyInProgress
    /\ \E w \in Threads : Alive(w)

(***************************************************************************)
(* C2.  At most one worker thread is alive and at most one child process   *)
(* is live, in every reachable state.                                      *)
(***************************************************************************)
C2_SingleWorker ==
    /\ Cardinality({ w \in Threads : Alive(w) }) <= 1
    /\ Cardinality({ p \in Threads : Live(p) }) <= 1

(***************************************************************************)
(* C5.  Every terminal path of a download (exit code 0, another exit code, *)
(* yt-dlp not found, any other exception) leaves the controls ready to     *)
(* retry: once the path's reset has run, and as long as no later download  *)
(* is started, is_downloading and is_paused are false, the download button *)
(* is enabled and the pause button is disabled and labelled "Pause"; and   *)
(* start() is accepted there.                                              *)
(***************************************************************************)
C5_TerminalPathsReady ==
    \A w \in Threads :
        (Latest(w) /\ ResetDone(w))
        => /\ ControlsReady
           /\ Unstarted # {} => ENABLED (action_download(<<"u">>) /\ is_downloading')

\* the path of the other exceptions has been walked to its end
C5_Witness ==
    \E w \in Threads :
        /\ Latest(w) /\ ResetDone(w) /\ threads[w].pending = << >>
        /\ status = <<"Error: ", "UnicodeDecodeError">>
        /\ ControlsReady

\* the calls contain an update of the progress bar
HasProgressCall(calls) == \E i \in 1..Len(calls) : calls[i][1] = "update_progress"
\* w's child ended with exit code 0 and w has made all the calls of that path
Completed(w) ==
    /\ threads[w].pc = "complete"
    /\ threads[w].pending = << >>

\* w's download is the only one there has been
Alone(w) == \A v \in Threads \ {w} : threads[v].pc = "unstarted"

(***************************************************************************)
(* C6.  When the child exits with code 0 after lines that made the         *)
(* download's total positive, the download ends Completed with the         *)
(* progress bar at current = total (as long as no later download is        *)
(* started), the total being the download's own when no other download     *)
(* came before it; when the total is 0 the completion path makes no        *)
(* progress update at all.                                                 *)
(***************************************************************************)
C6_CompletedProgress ==
    /\ [](\A w \in Threads :
            (Latest(w) /\ Completed(w) /\ threads[w].loc.playlist_total > 0)
            => /\ progress.current = progress.total
               /\ Alone(w) => progress.total = threads[w].loc.playlist_total)
    /\ [][ \A w \in Threads :
            (threads[w].pc = "returncode" /\ threads'[w].pc = "complete")
            => (HasProgressCall(threads'[w].pending) <=> threads[w].loc.playlist_total > 0) ]_vars

\* a playlist of two items has been downloaded
C6_Witness ==
    \E w \in Threads :
        /\ Latest(w) /\ Completed(w)
        /\ threads[w].loc.playlist_total = 2
        /\ progress = [ current |-> 2, total |-> 2 ]

\* the worker of the running download has not spawned its child yet
BeforeSpawn == is_downloading /\ \E w \in Threads : threads[w].pc = "Popen"
\* the step tells the user something: a line in the log or a new status
Reported == download_log' # << >> \/ status' # status
\* the step signals no child and changes neither the paused flag nor the snapshot
NothingPaused ==
    UNCHANGED << is_paused, pause_btn, procs, current_action, current_file,
                 playlist_info, progress >>

(***************************************************************************)
(* C10.  pause() when the controller is not in Running.Active -- idle,     *)
(* after a terminal path, or running before the worker has spawned the     *)
(* child -- is reported as an error, sends no signal and leaves the paused *)
(* flag and the snapshot (action, file, playlist info, progress) as they   *)
(* were.                                                                   *)
(***************************************************************************)
C10_PauseRefusedWhenNotActive ==
    [][ ((~is_downloading \/ BeforeSpawn) /\ action_pause_resume)
        => (NothingPaused /\ Reported) ]_vars

\* C10 without the report: no signal, the paused flag and the snapshot as they
\* were, the status included
C10_NoSignalWhenNotActive ==
    [][ ((~is_downloading \/ BeforeSpawn) /\ action_pause_resume)
        => (NothingPaused /\ status' = status) ]_vars

\* --------------------------------------------------- one line, one step
\* the step in which w reads a non-blank line and parses it
ReadStep(w) ==
    /\ threads[w].pc = "for" /\ threads[w].pending = << >>
    /\ threads'[w].pc = "for" /\ threads'[w].pending # << >>
\* the line read in that step: the raw line is the first thing logged
LineRead(w) == threads'[w].pending[1][2][2]
\* what the elif chain did with it, after the logging of the raw line
Effect(w) == Step(threads'[w].loc, Tail(threads'[w].pending))
\* w has just read a line: the line
Reading(w) == threads[w].pc = "for" /\ threads[w].pending # << >>
               /\ threads[w].pending[1][1] = "log_message"
               /\ threads[w].pending[1][2][1] = "output: "
Max(a, b) == IF a >= b THEN a ELSE b
\* floor(num / den), den > 0
Floor(num, den) == num \div den

(***************************************************************************)
(* C3.  After any sequence of lines of one download the progress shown     *)
(* has total >= 0 and 0 <= current <= max(total, 1).                       *)
(***************************************************************************)
C3_ProgressInRange ==
    /\ progress.total >= 0
    /\ 0 <= progress.current
    /\ progress.current <= Max(progress.total, 1)

(***************************************************************************)
(* C4.  Within one download the total never decreases: every total a line  *)
(* makes the worker publish is at least the total it published before      *)
(* (playlist_total holds the total published last, 0 before the first).    *)
(***************************************************************************)
C4_TotalNeverDecreases ==
    [][ \A w \in Threads :
          ReadStep(w)
          => \A i \in 1..Len(threads'[w].pending) :
                threads'[w].pending[i][1] = "update_progress"
                => threads'[w].pending[i][3] >= threads[w].loc.playlist_total ]_vars

(***************************************************************************)
(* C8.  A percent line read while the total is positive sets the current   *)
(* progress to floor((lastItemIndex - 1) + percent / 100), lastItemIndex   *)
(* being the index of the last "Downloading item" line of the download,    *)
(* and 1 before the first.                                                 *)
(***************************************************************************)
LastItemIndex(w) == IF item_seen[w] THEN threads[w].loc.current_item ELSE 1

C8_PercentProgress ==
    [][ \A w \in Threads :
          (ReadStep(w) /\ Has(LineRead(w), mDlPercent) /\ threads[w].loc.playlist_total > 0)
          => Tail(threads'[w].pending) =
               << <<"update_progress",
                    Floor((LastItemIndex(w) - 1) * 100 + LineRead(w).percent, 100),
                    threads[w].loc.playlist_total>> >> ]_vars

(***************************************************************************)
(* C9.  A percent line read while the total is 0 changes neither counter   *)
(* and publishes no progress update: the line is logged and that is all.   *)
(***************************************************************************)
C9_PercentIgnoredWithoutTotal ==
    [][ \A w \in Threads :
          (ReadStep(w) /\ Has(LineRead(w), mDlPercent) /\ threads[w].loc.playlist_total = 0)
          => /\ Tail(threads'[w].pending) = << >>
             /\ threads'[w].loc = threads[w].loc ]_vars

\* a percent line of a single video is being logged, and nothing follows it
C9_Witness ==
    \E w \in Threads :
        /\ Reading(w)
        /\ Has(threads[w].pending[1][2][2], mDlPercent)
        /\ threads[w].loc.playlist_total = 0
        /\ Len(threads[w].pending) = 1
        /\ progress = [ current |-> 0, total |-> 100 ]

\* ------------------------------------------------- the rules, in order
(***************************************************************************)
(* The classifier as a table: rule k applies to the lines Matches(k, _)    *)
(* and has the effect RuleEffect(k, _, _).  Rules 1 to 16 are those of     *)
(* the specification's list; the chain has two more tests between rule 6   *)
(* and rule 7, numbered 17 and 18 here and ranked by Rank.                 *)
(***************************************************************************)
SpecRules == 1..16
YtExtractingRule == 17
VideoIdRule == 18

Matches(k, line) ==
    CASE k = 1  -> Has(line, mExtractingUrl)
      [] k = 2  -> Has(line, mRedirect)
      [] k = 3  -> Has(line, mWebpage) \/ Has(line, mApiJson)
      [] k = 4  -> Has(line, mPlaylist)
      [] k = 5  -> Has(line, mItemCount)
      [] k = 6  -> Has(line, mItem)
      [] k = 7  -> Has(line, mDlDestination)
      [] k = 8  -> Has(line, mDlPercent)
      [] k = 9  -> Has(line, mDownload) /\ Has(line, mAlready)
      [] k = 10 -> Has(line, mExtractAudio)
      [] k = 11 -> Has(line, mEmbedThumbnail)
      [] k = 12 -> Has(line, mMetadata) \/ Has(line, mAddingMetadata)
      [] k = 13 -> Has(line, mDeleting)
      [] k = 14 -> Has(line, mWarning)
      [] k = 15 -> Has(line, mError)
      [] k = 16 -> TRUE
      [] k = YtExtractingRule -> Has(line, mYtExtracting)
      [] k = VideoIdRule      -> Has(line, mYtWebpage) \/ Has(line, mYtPlayerJson)

RuleEffect(k, line, loc) ==
    CASE k = 1  -> ExtractingUrlBranch(line, loc)
      [] k = 2  -> RedirectBranch(line, loc)
      [] k = 3  -> FetchingBranch(line, loc)
      [] k = 4  -> PlaylistBranch(line, loc)
      [] k = 5  -> ItemCountBranch(line, loc)
      [] k = 6  -> ItemBranch(line, loc)
      [] k = 7  -> DestinationBranch(line, loc)
      [] k = 8  -> ItemPercentBranch(line, loc)
      [] k = 9  -> AlreadyBranch(line, loc)
      [] k = 10 -> ExtractAudioBranch(line, loc)
      [] k = 11 -> EmbedThumbnailBranch(line, loc)
      [] k = 12 -> MetadataBranch(line, loc)
      [] k = 13 -> DeletingBranch(line, loc)
      [] k = 14 -> WarningBranch(line, loc)
      [] k = 15 -> ErrorBranch(line, loc)
      [] k = 16 -> NoBranch(line, loc)
      [] k = YtExtractingRule -> YtExtractingBranch(line, loc)
      [] k = VideoIdRule      -> VideoIdBranch(line, loc)

\* the place of a rule in the chain, doubled to leave room after rule 6
Rank(k) ==
    CASE k = YtExtractingRule -> 13
      [] k = VideoIdRule      -> 14
      [] k <= 6               -> 2 * k
      [] OTHER                -> 2 * k + 1

\* the first rule of R, in the order of the chain, that the line matches
FirstMatch(R, line) ==
    CHOOSE k \in R : /\ Matches(k, line)
                     /\ \A j \in R : Matches(j, line) => Rank(k) <= Rank(j)

\* every line read has exactly the effect of the first rule of R it matches
FirstMatchApplied(R) ==
    \A w \in Threads :
        ReadStep(w)
        => Effect(w) = RuleEffect(FirstMatch(R, LineRead(w)), LineRead(w), threads[w].loc)

(***************************************************************************)
(* C7, as stated.  Every line read has exactly the effect of the           *)
(* lowest-numbered rule of the specification's 16 that it matches, and a   *)
(* line matching none changes nothing.                                     *)
(***************************************************************************)
C7_FirstOfSixteenRules == [][ FirstMatchApplied(SpecRules) ]_vars

(***************************************************************************)
(* C7, amended.  Every line read has exactly the effect of the first rule  *)
(* it matches in the order of the chain, which tests the 16 rules and,     *)
(* between rule 6 and rule 7, the two "[youtube]" patterns; the second of  *)
(* them (a video id followed by "Downloading webpage" or "Downloading      *)
(* ios/android player API JSON") has no effect and ends the               *)
(* classification of the line.                                             *)
(***************************************************************************)
C7_FirstMatchInChainOrder ==
    [][ FirstMatchApplied(SpecRules \cup {YtExtractingRule, VideoIdRule}) ]_vars

\* a line with both "WARNING:" and "ERROR:" has been read: it is logged, and
\* the warning rule, which publishes nothing for it, is the one applied
C7_Witness ==
    \E w \in Threads :
        /\ Reading(w)
        /\ threads[w].pending[1][2][2].marks = {mWarning, mError}
        /\ Len(threads[w].pending) = 1

\* ------------------------------------------------------ pause and resume
\* the step is a press of pause/resume that the guard of line 342 lets through
Pressed == action_pause_resume /\ ~PauseResumeRefused
\* the child the handle refers to was spawned by the download that is running
CurrentChild ==
    /\ download_process # NoProcess
    /\ \E w \in Threads : Latest(w) /\ threads[w].stdout = download_process
\* the controller is in Running.Active / Running.Paused
RunningActive == is_downloading /\ ~is_paused /\ CurrentChild
RunningPaused == is_downloading /\ is_paused /\ CurrentChild
\* the child the handle refers to has not exited: the signal reaches it
Reached == procs[download_process].st \in {"running", "stopped"}

(***************************************************************************)
(* C11.  A pause takes effect only in Running.Active: it sends the stop    *)
(* signal to the child of the current download and the controller is in    *)
(* Running.Paused; a resume takes effect only in Running.Paused: it sends  *)
(* the continue signal to that child and the controller is back in         *)
(* Running.Active.  So a child is sent stop only while it runs and         *)
(* continue only while it is stopped: its signals alternate stop,          *)
(* continue, stop, ..., starting with stop.                                *)
(***************************************************************************)
C11_PauseResumeAlternate ==
    [][ Pressed =>
          /\ (~is_paused /\ is_paused')
             => /\ RunningActive /\ RunningPaused'
                /\ Reached => /\ procs[download_process].st = "running"
                              /\ procs'[download_process].st = "stopped"
          /\ (is_paused /\ ~is_paused')
             => /\ RunningPaused /\ RunningActive'
                /\ Reached => /\ procs[download_process].st = "stopped"
                              /\ procs'[download_process].st = "running" ]_vars

\* the step delivers no signal: send_signal raises, or the child has exited
NotDelivered ==
    /\ Pressed
    /\ \/ procs[download_process].st = "exited"
       \/ download_log' \in { << <<"Error pausing: ", "e">> >>, << <<"Error resuming: ", "e">> >> }

(***************************************************************************)
(* C12.  When the signal of a pause or resume cannot be delivered          *)
(* (send_signal raises, or the child has already exited), the failure is   *)
(* logged and is_paused and the label of the pause button keep their       *)
(* values.                                                                 *)
(***************************************************************************)
C12_SignalFailureLeavesState ==
    [][ NotDelivered
        => /\ UNCHANGED << is_paused, pause_btn >>
           /\ download_log' \in { << <<"Error pausing: ", "e">> >>,
                                  << <<"Error resuming: ", "e">> >> } ]_vars

\* C12 for the failures the code does catch: send_signal raises
C12_RaisedSignalLeavesState ==
    [][ (Pressed /\ download_log' \in { << <<"Error pausing: ", "e">> >>,
                                        << <<"Error resuming: ", "e">> >> })
        => UNCHANGED << is_paused, pause_btn, status, current_action, procs >> ]_vars

\* --------------------------------------------------------- spawn failure
\* w's Popen raises FileNotFoundError: the handler of line 618 takes over
NotFoundStep(w) ==
    /\ threads[w].pc = "Popen" /\ threads'[w].pc = "except"
    /\ \E i \in 1..Len(threads'[w].pending) :
          threads'[w].pending[i] = Call("update_status", <<"yt-dlp not found">>)
\* the calls contain a log line that tells how to install yt-dlp
InstallAdvice(calls) ==
    \E i \in 1..Len(calls) : calls[i] = Call("log_message", <<"  pip install yt-dlp">>)
\* w's attempt ended in an except clause before a child existed
SpawnFailed(w) == threads[w].pc = "except" /\ threads[w].stdout = NoProcess

(***************************************************************************)
(* C13.  When the spawn fails because yt-dlp is missing, the worker goes   *)
(* to the terminal not-found report, which logs an install instruction;    *)
(* no child exists for the attempt, and from there the worker can only     *)
(* make its report and return: it neither spawns again nor enters the read *)
(* loop nor reports completion or an exit code.                            *)
(***************************************************************************)
C13_NotFoundIsTerminal ==
    /\ [][ \A w \in Threads :
             NotFoundStep(w)
             => /\ InstallAdvice(threads'[w].pending)
                /\ UNCHANGED << procs, download_process >> ]_vars
    /\ [][ \A w \in Threads :
             threads[w].pc = "except"
             => /\ threads'[w].pc \in {"except", "done"}
                /\ threads'[w].pc = "except"
                   => \/ threads'[w].pending = threads[w].pending
                      \/ threads'[w].pending = Tail(threads[w].pending) ]_vars
    /\ [](\A w \in Threads : SpawnFailed(w) => procs[w].st = "none")

\* the install instruction has been written to the log, and there is no child
C13_Witness ==
    \E w \in Threads :
        /\ SpawnFailed(w)
        /\ procs[w].st = "none"
        /\ status = <<"yt-dlp not found">>
        /\ download_log = << <<"  pip install yt-dlp">> >>

\* ----------------------------------------------------------- the exit code
\* w makes the call at the head of its queue, and the call is f
Calls(w, f) ==
    /\ threads[w].pending # << >>
    /\ Head(threads[w].pending)[1] = f
    /\ threads'[w].pending = Tail(threads[w].pending)
\* the exit code of the child that w spawned
ExitCode(w) == procs[threads[w].stdout].exitstatus

(***************************************************************************)
(* C14.  When the child of a download exits with a nonzero code, the       *)
(* status and the log line of the failure report carry the exit code of    *)
(* that same child, whatever the UI does in between.                       *)
(***************************************************************************)
C14_FailedReportsOwnExitCode ==
    [][ \A w \in Threads :
          /\ Calls(w, "update_status_failed")
             => status' = <<"Failed (exit code: ", ExitCode(w), ")">>
          /\ Calls(w, "log_message_failed")
             => download_log' = << <<"ERROR: Download failed with exit code ", ExitCode(w)>> >>
       ]_vars

\* ----------------------------------------------------------- the empty URL
\* the error report of lines 401-402
UrlRequired ==
    /\ status = <<"Error: URL is required">>
    /\ download_log = << <<"ERROR: Please enter a URL">> >>

(***************************************************************************)
(* C15.  start() with an empty or whitespace-only URL while no download is *)
(* running is rejected before anything is spawned: no thread, no child,    *)
(* is_downloading stays false, the buttons and the rest of the display     *)
(* keep their values; only the error is reported, in the status bar and    *)
(* in the log.                                                             *)
(***************************************************************************)
C15_EmptyUrlRejected ==
    [][ \A value \in UrlValues :
          (~is_downloading /\ (\A i \in 1..Len(value) : value[i] = " ")
              /\ action_download(value))
          => /\ UNCHANGED << threads, procs, download_process, is_downloading, is_paused,
                             pause_btn, download_btn, current_action, current_file,
                             playlist_info, progress >>
             /\ UrlRequired' ]_vars

\* a URL of blanks was rejected after a download had ended
C15_Witness ==
    /\ UrlRequired
    /\ ControlsReady
    /\ \E w \in Threads : threads[w].pc = "done"
    /\ \A w \in Threads : ~Alive(w)

\* ------------------------------------------------------- a new download
\* the step is a start() that is accepted
Started == ~is_downloading /\ is_downloading'

(***************************************************************************)
(* C16.  An accepted start() discards what the previous download left on   *)
(* display: right after it the progress is 0 of the initial total, and the *)
(* playlist info and the current file are empty.                           *)
(***************************************************************************)
C16_StartDiscardsSnapshot ==
    [][ Started => /\ progress'.current = 0
                   /\ progress'.total \in {0, 100}
                   /\ playlist_info' = << >>
                   /\ current_file' = << >> ]_vars

\* --------------------------------------------------------------- the child
\* child p has ended and wait() or poll() has collected its exit status
Reaped(p) == procs[p].st = "exited" /\ procs[p].returncode # NoReturncode

(***************************************************************************)
(* C17.  Whenever start() is accepted again, every child that was spawned  *)
(* has exited and has been reaped: no child of a finished attempt is       *)
(* still running or stopped.                                               *)
(***************************************************************************)
C17_ChildReapedWhenReady ==
    ~is_downloading => \A p \in Threads : procs[p].st = "none" \/ Reaped(p)

\* ----------------------------------------------------- the thread boundary
\* a step that run_download itself takes in thread w (not a call it hands
\* to the UI thread, and not the start of the thread)
WorkerStep(w) ==
    /\ threads[w].pc # "unstarted"
    /\ threads'[w] # threads[w]
    /\ ~(/\ threads[w].pending # << >>
          /\ threads'[w] = [ threads[w] EXCEPT !.pending = Tail(@) ])
\* the UI thread is in a position to use the handle: a press of pause/resume
\* would call send_signal on it
HandleInUse == ~PauseResumeRefused
\* a worker is about to assign self.download_process
HandleWrite == \E w \in Threads : Ready(w, "Popen")

\* the worker changes the flags and the widgets only through call_from_thread
C18_WorkerMarshalsUi == [][ \A w \in Threads : WorkerStep(w) => UNCHANGED ui ]_vars

(***************************************************************************)
(* C18.  The worker changes the flags and the widgets only through calls   *)
(* it hands to the UI thread, and the process handle is never written by   *)
(* the worker at a moment when the UI thread may use it.                   *)
(***************************************************************************)
C18_ThreadBoundary ==
    /\ [][ \A w \in Threads : WorkerStep(w) => UNCHANGED ui ]_vars
    /\ [] ~(HandleWrite /\ HandleInUse)

\* ------------------------------------------------------- the item count
\* the rules of the chain, in the numbering of Matches
ChainRules == SpecRules \cup {YtExtractingRule, VideoIdRule}
\* the line read is classified by rule k
Classified(w, k) == ReadStep(w) /\ FirstMatch(ChainRules, LineRead(w)) = k
\* the playlist info of a count event
ItemsInfo(available, total) ==
    <<"Items: ", available, " available">>
    \o (IF available < total THEN <<" (", total - available, " unavailable)">> ELSE << >>)

(***************************************************************************)
(* C19.  A "Downloading N items of M" line makes the playlist info         *)
(* "Items: N available", followed by " (M-N unavailable)" exactly when     *)
(* N < M, the total N and the current progress 0.                          *)
(***************************************************************************)
C19_ItemCount ==
    /\ [][ \A w \in Threads :
             Classified(w, 5)
             => LET available == LineRead(w).count[1]
                    total     == LineRead(w).count[2]
                IN /\ Tail(threads'[w].pending) =
                        << Call("update_playlist_info", ItemsInfo(available, total)),
                           <<"update_progress", 0, available>> >>
                   /\ threads'[w].loc.playlist_total = available ]_vars
    /\ [][ \A w \in Threads :
             /\ Calls(w, "update_playlist_info")
                => playlist_info' = Head(threads[w].pending)[2]
             /\ Calls(w, "update_progress")
                => progress' = [ current |-> Head(threads[w].pending)[2],
                                 total   |-> Head(threads[w].pending)[3] ] ]_vars

\* one item of two is available, and the display says so
C19_Witness ==
    \E w \in Threads :
        /\ Ready(w, "for")
        /\ threads[w].loc.playlist_total = 1
        /\ playlist_info = <<"Items: ", 1, " available", " (", 1, " unavailable)">>
        /\ progress = [ current |-> 0, total |-> 1 ]

\* ------------------------------------------------------- the file's name
(***************************************************************************)
(* C20.  An "[ExtractAudio] ... Destination: <path>" line leaves the       *)
(* worker's stored file name as a "[download] Destination: <path>" line    *)
(* with the same path would: the base name without its extension, which    *)
(* is the name later lines (an "already downloaded" notice) are shown      *)
(* with.                                                                   *)
(***************************************************************************)
C20_ConvertingAudioSetsFilename ==
    [][ \A w \in Threads :
          (Classified(w, 10) /\ Has(LineRead(w), mDestination))
          => threads'[w].loc = DestinationBranch(LineRead(w), threads[w].loc).loc ]_vars

\* the file name the worker has stored, with the suffix of the notice
AlreadyText(filename) == filename \o <<" (already downloaded)">>

(***************************************************************************)
(* C21.  An "Extracting URL:" line clears the stored file name.  An        *)
(* "already downloaded" notice shows the stored name with the suffix       *)
(* " (already downloaded)" only if a name is stored, and leaves the stored *)
(* name as it is.  So a notice that follows an "Extracting URL:" line with *)
(* no file name in between shows no name of an earlier track.              *)
(***************************************************************************)
C21_ExtractingUrlClearsFilename ==
    [][ \A w \in Threads :
          /\ Classified(w, 1) => threads'[w].loc.current_filename = << >>
          /\ Classified(w, 9)
             => /\ threads'[w].loc = threads[w].loc
                /\ \A i \in 1..Len(threads'[w].pending) :
                      threads'[w].pending[i][1] = "update_current_file"
                      => /\ threads[w].loc.current_filename # << >>
                         /\ threads'[w].pending[i][2] =
                               AlreadyText(threads[w].loc.current_filename) ]_vars

\* C21 for the notice alone: the suffix is for display only
C21_AlreadyDownloadedKeepsFilename ==
    [][ \A w \in Threads :
          Classified(w, 9)
          => /\ threads'[w].loc = threads[w].loc
             /\ (threads[w].loc.current_filename = << >>)
                => \A i \in 1..Len(threads'[w].pending) :
                      threads'[w].pending[i][1] # "update_current_file" ]_vars

\* --------------------------------------------------------------- the end
\* w's download has come to its end and its reset_buttons has run
Ended(w) ==
    /\ threads[w].pc \in Terminal \cup {"done"}
    /\ \A i \in 1..Len(threads[w].pending) : threads[w].pending[i][1] # "reset_buttons"
\* the child of the running download is stopped
Suspended == is_downloading /\ CurrentChild /\ procs[download_process].st = "stopped"

\* every download that is started ends and gives the controls back, unless
\* its child is stopped and stays stopped for good
C22_EveryStartEnds ==
    \A w \in Threads :
        \/ (threads[w].pc = "Popen") ~> (Ended(w) /\ ~is_downloading)
        \/ <>[](procs[w].st = "stopped")

\* while the child of the running download is stopped, the download stays
\* running
C22_SuspendedStaysRunning == [][ Suspended => is_downloading' ]_vars

(***************************************************************************)
(* C22.  Every accepted start() leads to the end of its download, with     *)
(* is_downloading false again, provided the threads are scheduled, the UI  *)
(* thread runs the calls handed to it and the child comes to its end;      *)
(* and while the child is stopped by a pause and not resumed, the download *)
(* stays running and reaches no terminal state.                            *)
(***************************************************************************)
C22_Liveness ==
    /\ \A w \in Threads :
          \/ (threads[w].pc = "Popen") ~> (Ended(w) /\ ~is_downloading)
          \/ <>[](procs[w].st = "stopped")
    /\ [][ Suspended => is_downloading' ]_vars

\* ------------------------------------------------------- the paused flag
(***************************************************************************)
(* C23.  Whenever is_paused is true, the child of the download that is     *)
(* running has been sent the stop signal and no continue signal since: it  *)
(* is stopped.  A pause pressed after start() and before the worker has    *)
(* spawned the new child never sets is_paused.                             *)
(***************************************************************************)
C23_PausedMeansChildStopped ==
    is_paused => /\ is_downloading
                 /\ CurrentChild
                 /\ procs[download_process].st = "stopped"

\* --------------------------------------------------- the trailing updates
\* w makes the call at the head of its queue
CallsNext(w) ==
    /\ threads[w].pending # << >>
    /\ threads'[w].pending = Tail(threads[w].pending)

(***************************************************************************)
(* C24.  Once a later download has been started, the calls a finished      *)
(* worker still makes change neither the status nor the current action,    *)
(* the current file, the progress or the playlist info.                    *)
(***************************************************************************)
C24_NoTrailingOverwrite ==
    [][ \A w \in Threads :
          (CallsNext(w) /\ ~Latest(w))
          => UNCHANGED << status, current_action, current_file, progress,
                          playlist_info >> ]_vars

\* ------------------------------------------------------------ the controls
(***************************************************************************)
(* C25.  In every state: is_paused implies is_downloading; the pause       *)
(* button is enabled iff is_downloading; the download button is enabled    *)
(* iff not is_downloading; the pause button reads "Resume" iff is_paused,  *)
(* and "Pause" otherwise.                                                  *)
(***************************************************************************)
C25_ControlsConsistent ==
    /\ is_paused => is_downloading
    /\ pause_btn.disabled <=> ~is_downloading
    /\ download_btn.disabled <=> is_downloading
    /\ pause_btn.label = (IF is_paused THEN "Resume" ELSE "Pause")

\* a download is paused and the controls say so
C25_Witness ==
    /\ is_downloading /\ is_paused
    /\ pause_btn = [ disabled |-> FALSE, label |-> "Resume" ]
    /\ download_btn = [ disabled |-> TRUE ]
    /\ procs[download_process].st = "stopped"

====
